---- MODULE Spec2Model ----
(***************************************************************************)
(* Model of braille_converter.py: the per-cell quantisation engine         *)
(* (_kmeans_two, _choose_pixel, _block_to_braille) and the two passes of   *)
(* to_braille_grid (first pass over the cells, neighbour-count             *)
(* suppression, translation to glyphs).                                    *)
(*                                                                         *)
(* Numbers.  The program computes on Python floats.  Every value that the  *)
(* program compares is a rational with a small denominator (a mean of at   *)
(* most 8 integer pixels), so the model computes on exact fractions:       *)
(*   - a Color is a record [r, g, b, n] standing for (r/n, g/n, b/n); a    *)
(*     pixel has n = 1, a cluster mean has n = the cluster size;           *)
(*   - luminance is kept multiplied by 5000 (coefficients 1063, 3576, 361  *)
(*     for 0.2126, 0.7152, 0.0722);                                        *)
(*   - comparisons are cross-multiplied; all products stay below 2^31.     *)
(***************************************************************************)
EXTENDS Integers, Sequences, FiniteSets, TLC

\* ---------------------------------------------------------------- bounds
\* Grid sizes of the grid specification (char_w, char_h).
GridW == 3
GridH == 2
\* Largest number of inked cells in the pictures of the grid specification.
MaxInked == 3
\* Largest min_neighbors drawn by the grid specification.
MaxMinNeighbors == 2

\* ------------------------------------------------------- program constants
\* _BAYER_4X4, indexed [y % 4][x % 4].
BAYER_4X4 == << <<0, 8, 2, 10>>,
                <<12, 4, 14, 6>>,
                <<3, 11, 1, 9>>,
                <<15, 7, 13, 5>> >>

\* _BRAILLE_BIT_INDEX, indexed [y][x].
BRAILLE_BIT_INDEX == << <<0, 3>>, <<1, 4>>, <<2, 5>>, <<6, 7>> >>

\* Code point of the blank braille glyph, chr(0x2800 + bits).
BrailleBase == 10240

\* ------------------------------------------------------------- arithmetic
Max(a, b) == IF a >= b THEN a ELSE b
Min(a, b) == IF a <= b THEN a ELSE b

RECURSIVE Pow2(_)
Pow2(k) == IF k = 0 THEN 1 ELSE 2 * Pow2(k - 1)

\* bin(bits).count("1")
RECURSIVE PopCount(_)
PopCount(n) == IF n = 0 THEN 0 ELSE (n % 2) + PopCount(n \div 2)

\* int(round(s / n)) for s >= 0, n > 0: Python rounds halves to the even
\* neighbour.
RoundHalfEven(s, n) ==
    LET q == s \div n
        rem == s % n
    IN  IF 2 * rem < n THEN q
        ELSE IF 2 * rem > n THEN q + 1
        ELSE IF q % 2 = 0 THEN q ELSE q + 1

\* ------------------------------------------------------------------ colors
Pixel(r, g, b) == [r |-> r, g |-> g, b |-> b, n |-> 1]

\* a == b on Color tuples (equality of the fractions).
ColorEq(a, b) ==
    /\ a.r * b.n = b.r * a.n
    /\ a.g * b.n = b.g * a.n
    /\ a.b * b.n = b.b * a.n

\* _luminance(c) * 5000 * c.n
Luminance(c) == 1063 * c.r + 3576 * c.g + 361 * c.b

\* _dist2(a, b) * (a.n * b.n)^2
Dist2(a, b) ==
    LET dr == a.r * b.n - b.r * a.n
        dg == a.g * b.n - b.g * a.n
        db == a.b * b.n - b.b * a.n
    IN  dr * dr + dg * dg + db * db

RECURSIVE SumChannel(_, _)
SumChannel(colors, ch) ==
    IF colors = << >> THEN 0
    ELSE Head(colors)[ch] + SumChannel(Tail(colors), ch)

\* _avg_color.  The collections the program averages are lists of pixels
\* (n = 1), or the single previous centre of an empty cluster, whose mean is
\* that centre itself.
AvgColor(colors) ==
    IF Len(colors) = 0 THEN Pixel(0, 0, 0)
    ELSE IF Len(colors) = 1 THEN colors[1]
    ELSE [r |-> SumChannel(colors, "r"), g |-> SumChannel(colors, "g"),
          b |-> SumChannel(colors, "b"), n |-> Len(colors)]

\* _color_to_hex
ColorToHex(c) ==
    RoundHalfEven(c.r, c.n) * 65536 + RoundHalfEven(c.g, c.n) * 256
        + RoundHalfEven(c.b, c.n)

\* ------------------------------------------------------------ _kmeans_two
\* dist2(color, center_a) <= dist2(color, center_b), color a pixel.
CloserToA(color, center_a, center_b) ==
    Dist2(color, center_a) * (center_b.n * center_b.n)
        <= Dist2(color, center_b) * (center_a.n * center_a.n)

\* sorted(colors, key=_luminance)[0]: the sort is stable, so the first
\* pixel of least luminance.  LowFrom scans colors[i..] with colors[best]
\* the least so far.
RECURSIVE LowFrom(_, _, _)
LowFrom(colors, i, best) ==
    IF i > Len(colors) THEN colors[best]
    ELSE LowFrom(colors, i + 1,
                 IF Luminance(colors[i]) < Luminance(colors[best])
                 THEN i ELSE best)

LowOf(colors) == LowFrom(colors, 2, 1)

\* sorted(colors, key=_luminance)[-1]: the last pixel of greatest luminance.
RECURSIVE HighFrom(_, _, _)
HighFrom(colors, i, best) ==
    IF i > Len(colors) THEN colors[best]
    ELSE HighFrom(colors, i + 1,
                  IF Luminance(colors[i]) >= Luminance(colors[best])
                  THEN i ELSE best)

HighOf(colors) == HighFrom(colors, 2, 1)

\* One pass of the loop body: the two clusters after the empty-cluster
\* re-seeding.
ClusterA(colors, center_a, center_b) ==
    LET cl == SelectSeq(colors, LAMBDA c : CloserToA(c, center_a, center_b))
    IN  IF cl = << >> THEN <<center_a>> ELSE cl

ClusterB(colors, center_a, center_b) ==
    LET cl == SelectSeq(colors, LAMBDA c : ~CloserToA(c, center_a, center_b))
    IN  IF cl = << >> THEN <<center_b>> ELSE cl

\* The loop "for _ in range(4)" with k iterations left.
RECURSIVE KMeansLoop(_, _, _, _)
KMeansLoop(colors, center_a, center_b, k) ==
    IF k = 0 THEN <<center_a, center_b>>
    ELSE LET new_a == AvgColor(ClusterA(colors, center_a, center_b))
             new_b == AvgColor(ClusterB(colors, center_a, center_b))
         IN  IF ColorEq(new_a, center_a) /\ ColorEq(new_b, center_b)
             THEN <<center_a, center_b>>
             ELSE KMeansLoop(colors, new_a, new_b, k - 1)

KMeansTwo(colors) ==
    IF colors = << >> THEN <<Pixel(0, 0, 0), Pixel(0, 0, 0)>>
    ELSE LET low == LowOf(colors)
             high == HighOf(colors)
         IN  IF ColorEq(low, high) THEN <<low, high>>
             ELSE KMeansLoop(colors, low, high, 4)

\* ----------------------------------------------------------- _choose_pixel
\* The dithered branch.  With lum = L/5000, lum_bg = Lbg/(5000 nb) and
\* lum_fg = Lfg/(5000 nf):  t = num / den before clamping, where
\*   num = (L nb - Lbg) nf,  den = Lfg nb - Lbg nf.
\* A non-zero delta is at least 1/320000 > 1e-6, so abs(delta) < 1e-6 is
\* den = 0, and then t = (lum - lum_bg) / 1e-6 is 0 or at least 25.
\* Mutant of DitherOn: the comparison with the threshold is strict.
DitherOnStrict(color, bg, fg, x, y) ==
    LET num == (Luminance(color) * bg.n - Luminance(bg)) * fg.n
        den == Luminance(fg) * bg.n - Luminance(bg) * fg.n
        tn == IF den = 0 THEN num ELSE IF den > 0 THEN num ELSE -num
        td == IF den = 0 THEN 1 ELSE IF den > 0 THEN den ELSE -den
        cn == IF tn < 0 THEN 0 ELSE IF tn > td THEN 1 ELSE tn
        cd == IF tn < 0 THEN 1 ELSE IF tn > td THEN 1 ELSE td
        threshold16 == BAYER_4X4[(y % 4) + 1][(x % 4) + 1]
    IN  cn * 16 > threshold16 * cd

DitherOn(color, bg, fg, x, y) ==
    LET num == (Luminance(color) * bg.n - Luminance(bg)) * fg.n
        den == Luminance(fg) * bg.n - Luminance(bg) * fg.n
        \* t as a fraction tn / td with td > 0
        tn == IF den = 0 THEN num ELSE IF den > 0 THEN num ELSE -num
        td == IF den = 0 THEN 1 ELSE IF den > 0 THEN den ELSE -den
        \* t = max(0.0, min(1.0, t))
        cn == IF tn < 0 THEN 0 ELSE IF tn > td THEN 1 ELSE tn
        cd == IF tn < 0 THEN 1 ELSE IF tn > td THEN 1 ELSE td
        threshold16 == BAYER_4X4[(y % 4) + 1][(x % 4) + 1]
    IN  cn * 16 >= threshold16 * cd

\* Mutants of ChoosePixel: the nearest-colour test compares the wrong way
\* round; the early return for bg == fg is missing.
ChoosePixelSwapped(color, bg, fg, x, y, dither) ==
    IF ColorEq(bg, fg) THEN FALSE
    ELSE IF dither THEN DitherOn(color, bg, fg, x, y)
    ELSE Dist2(color, bg) * (fg.n * fg.n) <= Dist2(color, fg) * (bg.n * bg.n)

ChoosePixelNoEqualCheck(color, bg, fg, x, y, dither) ==
    IF dither THEN DitherOn(color, bg, fg, x, y)
    ELSE Dist2(color, fg) * (bg.n * bg.n) <= Dist2(color, bg) * (fg.n * fg.n)

\* Another mutant of ChoosePixel: a pixel at equal distance from both
\* colours goes to the background.
ChoosePixelStrict(color, bg, fg, x, y, dither) ==
    IF ColorEq(bg, fg) THEN FALSE
    ELSE IF dither THEN DitherOn(color, bg, fg, x, y)
    ELSE Dist2(color, fg) * (bg.n * bg.n) < Dist2(color, bg) * (fg.n * fg.n)

\* One more mutant of ChoosePixel: both distances of the nearest-colour test
\* are taken from fg.
ChoosePixelBothFg(color, bg, fg, x, y, dither) ==
    IF ColorEq(bg, fg) THEN FALSE
    ELSE IF dither THEN DitherOn(color, bg, fg, x, y)
    ELSE Dist2(color, fg) * (fg.n * fg.n) <= Dist2(color, fg) * (fg.n * fg.n)

ChoosePixel(color, bg, fg, x, y, dither) ==
    IF ColorEq(bg, fg) THEN FALSE
    ELSE IF dither THEN DitherOn(color, bg, fg, x, y)
    ELSE Dist2(color, fg) * (bg.n * bg.n) <= Dist2(color, bg) * (fg.n * fg.n)

\* ------------------------------------------------------- _block_to_braille
\* flat = [pix for row in block for pix in row]
Flat(block) == block[1] \o block[2] \o block[3] \o block[4]

\* The classification loop: bits |= 1 << _BRAILLE_BIT_INDEX[y][x] for the
\* pixels k..7 of the block in row-major order (y = k div 2, x = k mod 2).
RECURSIVE ClassifyFrom(_, _, _, _, _)
ClassifyFrom(block, bg, fg, dither, k) ==
    IF k = 8 THEN 0
    ELSE LET y == k \div 2
             x == k % 2
             bit == IF ChoosePixel(block[y + 1][x + 1], bg, fg, x, y, dither)
                    THEN Pow2(BRAILLE_BIT_INDEX[y + 1][x + 1]) ELSE 0
         IN  bit + ClassifyFrom(block, bg, fg, dither, k + 1)

\* Mutant of LowContrast: the square root is forgotten.
LowContrastNoSqrt(bg, fg, mc) ==
    Dist2(bg, fg) < mc * (bg.n * fg.n) * (bg.n * fg.n)

\* math.sqrt(_dist2(bg, fg)) < min_contrast, for min_contrast >= 0.
LowContrast(bg, fg, mc) ==
    Dist2(bg, fg) < mc * mc * (bg.n * fg.n) * (bg.n * fg.n)

\* Mutants of BlockToBraille: a cell with too few dots is blanked but keeps
\* the clustered colours; the dot test is dot_count <= min_dots.
BlockToBrailleKeepsColors(block, dither, mc, md) ==
    LET flat == Flat(block)
        km == KMeansTwo(flat)
        bg == km[1]
        fg == km[2]
        flat_color == ColorToHex(AvgColor(flat))
        bits == ClassifyFrom(block, bg, fg, dither, 0)
        dot_count == PopCount(bits)
    IN  IF LowContrast(bg, fg, mc)
        THEN <<0, flat_color, flat_color, 0>>
        ELSE IF bits # 0 /\ dot_count < md
        THEN <<0, ColorToHex(fg), ColorToHex(bg), 0>>
        ELSE <<bits, ColorToHex(fg), ColorToHex(bg), dot_count>>

BlockToBrailleDotsInclusive(block, dither, mc, md) ==
    LET flat == Flat(block)
        km == KMeansTwo(flat)
        bg == km[1]
        fg == km[2]
        flat_color == ColorToHex(AvgColor(flat))
        bits == ClassifyFrom(block, bg, fg, dither, 0)
        dot_count == PopCount(bits)
    IN  IF LowContrast(bg, fg, mc)
        THEN <<0, flat_color, flat_color, 0>>
        ELSE IF bits # 0 /\ dot_count <= md
        THEN <<0, flat_color, flat_color, 0>>
        ELSE <<bits, ColorToHex(fg), ColorToHex(bg), dot_count>>

\* The tuple (bits, fg, bg, dot_count) returned by _block_to_braille.
BlockToBraille(block, dither, mc, md) ==
    LET flat == Flat(block)
        km == KMeansTwo(flat)
        bg == km[1]
        fg == km[2]
        flat_color == ColorToHex(AvgColor(flat))
        bits == ClassifyFrom(block, bg, fg, dither, 0)
        dot_count == PopCount(bits)
    IN  IF LowContrast(bg, fg, mc)
        THEN <<0, flat_color, flat_color, 0>>
        ELSE IF bits # 0 /\ dot_count < md
        THEN <<0, flat_color, flat_color, 0>>
        ELSE <<bits, ColorToHex(fg), ColorToHex(bg), dot_count>>

\* ---------------------------------------------------------------- state
VARIABLES
    img,            \* pixel buffer: img[<<cx, cy>>][py + 1][px + 1] is the
                    \* RGBA pixel at (cx * 2 + px, cy * 4 + py)
    img_w, img_h,   \* img.width, img.height
    char_w, char_h, dither, min_contrast, min_dots, min_neighbors,
                    \* the options of main, passed on as the arguments of
                    \* to_braille_grid
    pc,             \* position in to_braille_grid
    bit_rows, fg_rows, bg_rows,     \* first-pass grids (lists of rows)
    bit_line, fg_line, bg_line,     \* the row under construction
    ret,            \* the tuple last returned by _block_to_braille
    cleaned_bits, cleaned_line,     \* output buffer of the second pass
    chars,          \* rows of code points of the frame
    file, source,   \* main: the picture stored at input_path, and the
                    \* picture load_image returned
    lua,            \* main: what was written to output_path
    colors, center_a, center_b, cluster_a, cluster_b, rounds, kpc,
                    \* _kmeans_two: its argument, its locals, the number of
                    \* loop bodies run, its position
    choose_args, choose_ret
                    \* _choose_pixel: its arguments and its return value

vars == <<img, img_w, img_h, char_w, char_h, dither, min_contrast, min_dots,
          min_neighbors, pc, bit_rows, fg_rows, bg_rows, bit_line, fg_line,
          bg_line, ret, cleaned_bits, cleaned_line, chars, file, source, lua,
          colors, center_a, center_b, cluster_a, cluster_b, rounds, kpc,
          choose_args, choose_ret>>

args == <<img, img_w, img_h, char_w, char_h, dither, min_contrast, min_dots,
          min_neighbors>>

\* The state of main outside to_braille_grid, of _kmeans_two and of
\* _choose_pixel.
mvars == <<file, source, lua>>
kvars == <<colors, center_a, center_b, cluster_a, cluster_b, rounds, kpc>>
cvars == <<choose_args, choose_ret>>
others == <<mvars, kvars, cvars>>

\* _composite_on_black: int(r * (a / 255.0)) per channel.
CompositeOnBlack(pix) ==
    Pixel((pix[1] * pix[4]) \div 255, (pix[2] * pix[4]) \div 255,
          (pix[3] * pix[4]) \div 255)

\* The block of cell (cx, cy) as lines 285-291 build it.
BlockAt(image, cx, cy) ==
    [py \in 1..4 |-> [px \in 1..2 |-> CompositeOnBlack(image[<<cx, cy>>][py][px])]]

\* ------------------------------------------------------------ first pass
\* One iteration of "for cx in range(char_w)" (lines 284-295), with the
\* appends of lines 296-298 when it ends a row.
FirstPassCell ==
    /\ pc = "first"
    /\ LET cy == Len(bit_rows)
           cx == Len(bit_line)
           res == BlockToBraille(BlockAt(img, cx, cy), dither, min_contrast,
                                 min_dots)
           bl == Append(bit_line, res[1])
           fl == Append(fg_line, res[2])
           gl == Append(bg_line, res[3])
       IN  /\ ret' = res
           /\ IF cx + 1 < char_w
              THEN /\ bit_line' = bl
                   /\ fg_line' = fl
                   /\ bg_line' = gl
                   /\ UNCHANGED <<bit_rows, fg_rows, bg_rows, pc>>
              ELSE /\ bit_rows' = Append(bit_rows, bl)
                   /\ fg_rows' = Append(fg_rows, fl)
                   /\ bg_rows' = Append(bg_rows, gl)
                   /\ bit_line' = << >>
                   /\ fg_line' = << >>
                   /\ bg_line' = << >>
                   /\ pc' = IF cy + 1 < char_h THEN "first" ELSE "second"
    /\ UNCHANGED <<args, cleaned_bits, cleaned_line, chars, others>>

\* ----------------------------------------------------------- second pass
\* Mutants of NeighborDots: the column range stops at x instead of x + 1;
\* the visited cell is counted among its neighbours.
NeighborDotsNarrow(rows, x, y, w, h) ==
    Cardinality({c \in (Max(0, x - 1)..(Min(w, x + 1) - 1))
                        \X (Max(0, y - 1)..(Min(h, y + 2) - 1)) :
                    /\ ~(c[2] = y /\ c[1] = x)
                    /\ rows[c[2] + 1][c[1] + 1] # 0})

NeighborDotsWithSelf(rows, x, y, w, h) ==
    Cardinality({c \in (Max(0, x - 1)..(Min(w, x + 2) - 1))
                        \X (Max(0, y - 1)..(Min(h, y + 2) - 1)) :
                    rows[c[2] + 1][c[1] + 1] # 0})

\* neighbor_dots of lines 310-316, counted over the grid rows.
NeighborDots(rows, x, y, w, h) ==
    Cardinality({c \in (Max(0, x - 1)..(Min(w, x + 2) - 1))
                        \X (Max(0, y - 1)..(Min(h, y + 2) - 1)) :
                    /\ ~(c[2] = y /\ c[1] = x)
                    /\ rows[c[2] + 1][c[1] + 1] # 0})

\* The cell is flattened by the second pass (the branch of line 317).
Flattens(rows, x, y, w, h, mn) ==
    /\ rows[y + 1][x + 1] # 0
    /\ NeighborDots(rows, x, y, w, h) < mn

\* The value the loop body appends to cleaned_line (lines 307, 318, 321).
CleanedValue(rows, x, y, w, h, mn) ==
    IF rows[y + 1][x + 1] = 0 THEN 0
    ELSE IF NeighborDots(rows, x, y, w, h) < mn THEN 0
    ELSE rows[y + 1][x + 1]

\* Mutant of BitRowsAfterCell: the pass cleans bit_rows in place.
BitRowsAfterCellInPlace(rows, x, y, flat) ==
    IF flat THEN [rows EXCEPT ![y + 1][x + 1] = 0] ELSE rows

\* bit_rows after the loop body has handled cell (x, y): the body only
\* reads it.
BitRowsAfterCell(rows, x, y, flat) == rows

\* Mutant of FillCell: the assignment is written the other way round.
FillCellSwapped(fgr, bgr, x, y) ==
    <<fgr, [bgr EXCEPT ![y + 1][x + 1] = fgr[y + 1][x + 1]]>>

\* Line 319, fg_rows[y][x] = bg_rows[y][x]: the pair (fg_rows, bg_rows)
\* after the assignment.
FillCell(fgr, bgr, x, y) ==
    <<[fgr EXCEPT ![y + 1][x + 1] = bgr[y + 1][x + 1]], bgr>>

\* One iteration of "for x in range(char_w)" (lines 304-321), with the
\* append of line 322 when it ends a row.
SecondPassCell ==
    /\ pc = "second"
    /\ LET y == Len(cleaned_bits)
           x == Len(cleaned_line)
           flat == Flattens(bit_rows, x, y, char_w, char_h, min_neighbors)
           cl == Append(cleaned_line,
                        CleanedValue(bit_rows, x, y, char_w, char_h,
                                     min_neighbors))
           filled == IF flat THEN FillCell(fg_rows, bg_rows, x, y)
                     ELSE <<fg_rows, bg_rows>>
       IN  /\ fg_rows' = filled[1]
           /\ bg_rows' = filled[2]
           /\ bit_rows' = BitRowsAfterCell(bit_rows, x, y, flat)
           /\ IF x + 1 < char_w
              THEN /\ cleaned_line' = cl
                   /\ UNCHANGED <<cleaned_bits, pc>>
              ELSE /\ cleaned_bits' = Append(cleaned_bits, cl)
                   /\ cleaned_line' = << >>
                   /\ pc' = IF y + 1 < char_h THEN "second" ELSE "chars"
    /\ UNCHANGED <<args, bit_line, fg_line, bg_line, ret, chars, others>>

\* The whole second pass (lines 301-322) as a function of the grids it is
\* given: the cleaned bits and the fg rows it leaves.
SuppressBits(rows, w, h, mn) ==
    [y \in 1..h |-> [x \in 1..w |-> CleanedValue(rows, x - 1, y - 1, w, h, mn)]]

SuppressFg(rows, fgr, bgr, w, h, mn) ==
    [y \in 1..h |-> [x \in 1..w |->
        IF Flattens(rows, x - 1, y - 1, w, h, mn) THEN bgr[y][x] ELSE fgr[y][x]]]

\* The loop body of the second pass applied to an arbitrary cell that has
\* not been visited yet, writing into a pre-sized output buffer: the second
\* pass with the visiting order left open.
Unvisited == -1

SecondPassAnyOrder(x, y) ==
    /\ pc = "second"
    /\ LET buf == IF cleaned_bits = << >>
                  THEN [yy \in 1..char_h |-> [xx \in 1..char_w |-> Unvisited]]
                  ELSE cleaned_bits
           flat == Flattens(bit_rows, x, y, char_w, char_h, min_neighbors)
           out == [buf EXCEPT ![y + 1][x + 1] =
                       CleanedValue(bit_rows, x, y, char_w, char_h,
                                    min_neighbors)]
           filled == IF flat THEN FillCell(fg_rows, bg_rows, x, y)
                     ELSE <<fg_rows, bg_rows>>
       IN  /\ buf[y + 1][x + 1] = Unvisited
           /\ cleaned_bits' = out
           /\ fg_rows' = filled[1]
           /\ bg_rows' = filled[2]
           /\ bit_rows' = BitRowsAfterCell(bit_rows, x, y, flat)
           /\ pc' = IF \E yy \in 1..char_h, xx \in 1..char_w :
                           out[yy][xx] = Unvisited
                    THEN "second" ELSE "chars"
    /\ UNCHANGED <<args, bit_line, fg_line, bg_line, ret, cleaned_line, chars,
                   others>>

\* ------------------------------------------------------------ third loop
\* Lines 325-333: chr(0x2800 + bits) for every cell, then the return.
BuildChars ==
    /\ pc = "chars"
    /\ chars' = [y \in 1..char_h |->
                    [x \in 1..char_w |-> BrailleBase + cleaned_bits[y][x]]]
    /\ pc' = "done"
    /\ UNCHANGED <<args, bit_rows, fg_rows, bg_rows, bit_line, fg_line,
                   bg_line, ret, cleaned_bits, cleaned_line, others>>

Next == FirstPassCell \/ SecondPassCell \/ BuildChars

SecondPassSomeCell ==
    \E x \in 0..(char_w - 1), y \in 0..(char_h - 1) : SecondPassAnyOrder(x, y)

NextAnyOrder == FirstPassCell \/ SecondPassSomeCell \/ BuildChars

\* ------------------------------------------- first pass in any cell order
\* A grid of w x h cells no worker has stored into yet.
EmptyGrid(w, h) == [yy \in 1..h |-> [xx \in 1..w |-> Unvisited]]

\* Mutant of StoreCell: the value is stored as the appends of lines 293-298
\* would store it, in the next free place in row-major order, whichever cell
\* it was computed for.
StoreCellInArrivalOrder(rows, x, y, v) ==
    LET free == {c \in (1..Len(rows[1])) \X (1..Len(rows)) :
                    rows[c[2]][c[1]] = Unvisited}
        first == CHOOSE c \in free :
                     \A d \in free :
                         c[2] < d[2] \/ (c[2] = d[2] /\ c[1] <= d[1])
    IN  [rows EXCEPT ![first[2]][first[1]] = v]

\* Where lines 293-298 leave the value computed for cell (x, y): at row y,
\* column x of the grid.
StoreCell(rows, x, y, v) == [rows EXCEPT ![y + 1][x + 1] = v]

\* The body of the first pass (lines 285-295) run for an arbitrary cell that
\* has not been computed yet; the second pass starts when no such cell is
\* left.
FirstPassAnyOrder(x, y) ==
    /\ pc = "first"
    /\ LET started == bit_rows # << >>
           bits0 == IF started THEN bit_rows ELSE EmptyGrid(char_w, char_h)
           fg0 == IF started THEN fg_rows ELSE EmptyGrid(char_w, char_h)
           bg0 == IF started THEN bg_rows ELSE EmptyGrid(char_w, char_h)
           res == BlockToBraille(BlockAt(img, x, y), dither, min_contrast,
                                 min_dots)
           bits1 == StoreCell(bits0, x, y, res[1])
       IN  /\ bits0[y + 1][x + 1] = Unvisited
           /\ ret' = res
           /\ bit_rows' = bits1
           /\ fg_rows' = StoreCell(fg0, x, y, res[2])
           /\ bg_rows' = StoreCell(bg0, x, y, res[3])
           /\ pc' = IF \E yy \in 1..char_h, xx \in 1..char_w :
                           bits1[yy][xx] = Unvisited
                    THEN "first" ELSE "second"
    /\ UNCHANGED <<args, bit_line, fg_line, bg_line, cleaned_bits,
                   cleaned_line, chars, others>>

FirstPassSomeCell ==
    \E x \in 0..(char_w - 1), y \in 0..(char_h - 1) : FirstPassAnyOrder(x, y)

NextParallel == FirstPassSomeCell \/ SecondPassCell \/ BuildChars

\* ------------------------------------------- _kmeans_two, step by step
\* Mutant of SeedLow: the list is not sorted, the first pixel is taken.
SeedLowUnsorted(pixels) == pixels[1]

\* Lines 169-171: the seeds of the two centres.
SeedLow(pixels) == LowOf(pixels)
SeedHigh(pixels) == HighOf(pixels)

\* Lines 166-175: the empty list, the seeds, the test low == high.
KMeansEnter ==
    /\ kpc = "enter"
    /\ IF colors = << >>
       THEN /\ center_a' = Pixel(0, 0, 0)
            /\ center_b' = Pixel(0, 0, 0)
            /\ kpc' = "empty"
       ELSE /\ center_a' = SeedLow(colors)
            /\ center_b' = SeedHigh(colors)
            /\ kpc' = IF ColorEq(SeedLow(colors), SeedHigh(colors))
                      THEN "same" ELSE "partition"
    /\ UNCHANGED <<colors, cluster_a, cluster_b, rounds>>
    /\ UNCHANGED <<args, pc, bit_rows, fg_rows, bg_rows, bit_line, fg_line,
                   bg_line, ret, cleaned_bits, cleaned_line, chars, mvars,
                   cvars>>

\* Mutant of NearA: both distances are taken from centre A.
NearASameCentre(color, a, b) ==
    Dist2(color, a) * (a.n * a.n) <= Dist2(color, a) * (a.n * a.n)

\* Mutant of NearA: a pixel at equal distance from both centres goes to B.
NearAStrict(color, a, b) ==
    Dist2(color, a) * (b.n * b.n) < Dist2(color, b) * (a.n * a.n)

\* The test of line 181.
NearA(color, a, b) == CloserToA(color, a, b)

\* Lines 178-184: the pixels are shared out between the two clusters.
KMeansPartition ==
    /\ kpc = "partition"
    /\ cluster_a' = SelectSeq(colors, LAMBDA c : NearA(c, center_a, center_b))
    /\ cluster_b' = SelectSeq(colors, LAMBDA c : ~NearA(c, center_a, center_b))
    /\ kpc' = "recompute"
    /\ UNCHANGED <<colors, center_a, center_b, rounds>>
    /\ UNCHANGED <<args, pc, bit_rows, fg_rows, bg_rows, bit_line, fg_line,
                   bg_line, ret, cleaned_bits, cleaned_line, chars, mvars,
                   cvars>>

\* Mutant of Reseed: an empty cluster stays empty.
ReseedNever(cluster, center) == cluster

\* Lines 185-188: an empty cluster gets its previous centre.
Reseed(cluster, center) == IF cluster = << >> THEN <<center>> ELSE cluster

\* Mutant of Converged: one unchanged centre is enough.
ConvergedEither(new_a, new_b, a, b) == ColorEq(new_a, a) \/ ColorEq(new_b, b)

\* The test of line 191.
Converged(new_a, new_b, a, b) == ColorEq(new_a, a) /\ ColorEq(new_b, b)

\* The number of bodies "for _ in range(4)" runs at most.
KMeansRounds == 4

\* Lines 185-193: re-seeding, the two means, the break, the new centres; the
\* loop ends after the last body.
KMeansRecompute ==
    /\ kpc = "recompute"
    /\ LET ca == Reseed(cluster_a, center_a)
           cb == Reseed(cluster_b, center_b)
           new_a == AvgColor(ca)
           new_b == AvgColor(cb)
       IN  /\ cluster_a' = ca
           /\ cluster_b' = cb
           /\ rounds' = rounds + 1
           /\ IF Converged(new_a, new_b, center_a, center_b)
              THEN /\ kpc' = "break"
                   /\ UNCHANGED <<center_a, center_b>>
              ELSE /\ center_a' = new_a
                   /\ center_b' = new_b
                   /\ kpc' = IF rounds + 1 < KMeansRounds
                             THEN "partition" ELSE "exhausted"
    /\ UNCHANGED colors
    /\ UNCHANGED <<args, pc, bit_rows, fg_rows, bg_rows, bit_line, fg_line,
                   bg_line, ret, cleaned_bits, cleaned_line, chars, mvars,
                   cvars>>

\* _kmeans_two has returned (center_a, center_b): lines 167, 173 and 194
\* (after the break, or after the last body).
KMeansReturned == kpc \in {"empty", "same", "break", "exhausted"}

NextKMeans == KMeansEnter \/ KMeansPartition \/ KMeansRecompute

\* ------------------------------------------------- _choose_pixel, called
\* One call of _choose_pixel on the arguments held in choose_args; the value
\* returned is kept as "True" or "False".
ChoosePixelCall ==
    /\ choose_ret = "none"
    /\ choose_ret' = IF ChoosePixel(choose_args.color, choose_args.bg,
                                    choose_args.fg, choose_args.x,
                                    choose_args.y, choose_args.dither)
                     THEN "True" ELSE "False"
    /\ UNCHANGED choose_args
    /\ UNCHANGED <<args, pc, bit_rows, fg_rows, bg_rows, bit_line, fg_line,
                   bg_line, ret, cleaned_bits, cleaned_line, chars, mvars,
                   kvars>>

NextChoose == ChoosePixelCall

\* ------------------------------------------------------------------- main
\* No picture loaded yet, no output file written yet.
NoPicture == << >>
NoOutput == [w |-> 0, h |-> 0, chars |-> << >>, fg |-> << >>, bg |-> << >>]

\* Mutant of InvalidConfig: only a frame with both sizes non-positive is
\* refused.
InvalidConfigBoth(w, h) == w <= 0 /\ h <= 0

\* The test of line 369.
InvalidConfig(w, h) == w <= 0 \/ h <= 0

\* Lines 368-370: the options are checked first; SystemExit ends main.
MainCheck ==
    /\ pc = "main"
    /\ pc' = IF InvalidConfig(char_w, char_h) THEN "fatal" ELSE "load"
    /\ UNCHANGED <<args, bit_rows, fg_rows, bg_rows, bit_line, fg_line,
                   bg_line, ret, cleaned_bits, cleaned_line, chars, others>>

\* Line 372: load_image decodes the picture stored at input_path.
LoadImage ==
    /\ pc = "load"
    /\ source' = file
    /\ pc' = "prepare"
    /\ UNCHANGED <<args, bit_rows, fg_rows, bg_rows, bit_line, fg_line,
                   bg_line, ret, cleaned_bits, cleaned_line, chars, file, lua,
                   kvars, cvars>>

\* Lines 373-375: resize_and_letterbox returns a canvas of exactly
\* char_width * 2 by char_height * 4 pixels (line 136).  The pictures drawn
\* for file already have that size, so the scale is 1, the offsets are 0 and
\* the canvas holds the pixels of the source.
Prepare ==
    /\ pc = "prepare"
    /\ img' = source
    /\ img_w' = char_w * 2
    /\ img_h' = char_h * 4
    /\ pc' = "call"
    /\ UNCHANGED <<char_w, char_h, dither, min_contrast, min_dots,
                   min_neighbors, bit_rows, fg_rows, bg_rows, bit_line,
                   fg_line, bg_line, ret, cleaned_bits, cleaned_line, chars,
                   others>>

\* Mutant of DimensionsMatch: only the width is checked.
DimensionsMatchWidthOnly(w, h, cw, ch) == w = cw * 2

\* The condition of the assert of line 271.
DimensionsMatch(w, h, cw, ch) == w = cw * 2 /\ h = ch * 4

\* Line 271, the entry of to_braille_grid: AssertionError ends the call
\* before pixels = img.load().
CheckDimensions ==
    /\ pc = "call"
    /\ pc' = IF DimensionsMatch(img_w, img_h, char_w, char_h)
             THEN "first" ELSE "assert"
    /\ UNCHANGED <<args, bit_rows, fg_rows, bg_rows, bit_line, fg_line,
                   bg_line, ret, cleaned_bits, cleaned_line, chars, others>>

\* Mutant of FrameToLua: w and h are taken the other way round.
FrameToLuaSwapped(frame_chars, frame_fg, frame_bg) ==
    [w |-> Len(frame_chars), h |-> Len(frame_chars[1]),
     chars |-> frame_chars, fg |-> frame_fg, bg |-> frame_bg]

\* frame_to_lua: the fields of the Lua table it prints.  A glyph of the
\* frame is a braille code point, which the escaping leaves alone.
FrameToLua(frame_chars, frame_fg, frame_bg) ==
    [w |-> Len(frame_chars[1]), h |-> Len(frame_chars),
     chars |-> frame_chars, fg |-> frame_fg, bg |-> frame_bg]

\* Line 385: the frame is printed and written to output_path.
WriteOutput ==
    /\ pc = "done"
    /\ lua' = FrameToLua(chars, fg_rows, bg_rows)
    /\ pc' = "written"
    /\ UNCHANGED <<args, bit_rows, fg_rows, bg_rows, bit_line, fg_line,
                   bg_line, ret, cleaned_bits, cleaned_line, chars, file,
                   source, kvars, cvars>>

\* main, from the check of the options to the written file.
NextMain ==
    \/ MainCheck
    \/ LoadImage
    \/ Prepare
    \/ CheckDimensions
    \/ FirstPassCell
    \/ SecondPassCell
    \/ BuildChars
    \/ WriteOutput

\* A direct call of to_braille_grid.
NextCall == CheckDimensions \/ FirstPassCell \/ SecondPassCell \/ BuildChars

\* ----------------------------------------------------------------- inputs
\* RGBA pixels the specifications draw the image from.
Black == <<0, 0, 0, 255>>
White == <<255, 255, 255, 255>>
Light == <<250, 250, 250, 255>>
Grey == <<120, 120, 120, 255>>
Clear == <<255, 255, 255, 0>>

UniformBlock(p) == [py \in 1..4 |-> [px \in 1..2 |-> p]]

\* Top row of colour p, the three rows below of colour q.
TopRowBlock(p, q) == [py \in 1..4 |-> [px \in 1..2 |-> IF py = 1 THEN p ELSE q]]

\* The pictures of the grid specification: every cell is either blank or
\* inked, at most MaxInked cells are inked, and the colours of both kinds
\* depend on the cell, so that neighbouring cells carry different fg and bg.
BlankBlock(cx, cy) ==
    IF (cx + cy) % 2 = 0 THEN UniformBlock(White) ELSE UniformBlock(Clear)

InkBlock(cx, cy) ==
    IF (cx + cy) % 2 = 0 THEN TopRowBlock(Black, White)
    ELSE TopRowBlock(White, Grey)

GridImages(w, h) ==
    {[c \in (0..(w - 1)) \X (0..(h - 1)) |->
         IF c \in inked THEN InkBlock(c[1], c[2]) ELSE BlankBlock(c[1], c[2])] :
     inked \in {i \in SUBSET ((0..(w - 1)) \X (0..(h - 1))) :
                   Cardinality(i) <= MaxInked}}

\* The blocks of the cell specification: every 2x4 arrangement of two of
\* three colours, and every arrangement of four colours in uniform rows.
CellPalette == {Black, Light, White}
RowPalette == {Black, Grey, Light, White}
CellBlocks ==
    UNION {[1..4 -> [1..2 -> {p, q}]] : p \in CellPalette, q \in CellPalette}
    \cup {[py \in 1..4 |-> [px \in 1..2 |-> f[py]]] : f \in [1..4 -> RowPalette]}

MinContrastValues == {0, 12}
MinDotsValues == {0, 1, 3, 7}

\* The state on entry to to_braille_grid (lines 276-278).
Entry ==
    /\ pc = "first"
    /\ bit_rows = << >> /\ fg_rows = << >> /\ bg_rows = << >>
    /\ bit_line = << >> /\ fg_line = << >> /\ bg_line = << >>
    /\ ret = << >>
    /\ cleaned_bits = << >> /\ cleaned_line = << >>
    /\ chars = << >>

Cells(w, h) == (0..(w - 1)) \X (0..(h - 1))

\* main, _kmeans_two and _choose_pixel are not running.
MainIdle == file = NoPicture /\ source = NoPicture /\ lua = NoOutput

KMeansIdle ==
    /\ kpc = "idle"
    /\ colors = << >>
    /\ center_a = Pixel(0, 0, 0) /\ center_b = Pixel(0, 0, 0)
    /\ cluster_a = << >> /\ cluster_b = << >>
    /\ rounds = 0

ChooseIdle == choose_args = << >> /\ choose_ret = "none"

\* A GridW x GridH frame with the default options (dithering, min_contrast
\* 12, min_dots 2).
Init ==
    /\ char_w = GridW
    /\ char_h = GridH
    /\ img_w = 2 * GridW
    /\ img_h = 4 * GridH
    /\ MainIdle /\ KMeansIdle /\ ChooseIdle
    /\ img \in GridImages(GridW, GridH)
    /\ dither = TRUE
    /\ min_contrast = 12
    /\ min_dots = 2
    /\ min_neighbors \in 0..MaxMinNeighbors
    /\ Entry

Spec == Init /\ [][Next]_vars

\* A frame of one cell, over every block and threshold.
InitCell ==
    /\ char_w = 1
    /\ char_h = 1
    /\ img_w = 2
    /\ img_h = 4
    /\ MainIdle /\ KMeansIdle /\ ChooseIdle
    /\ img \in [Cells(1, 1) -> CellBlocks]
    /\ dither \in BOOLEAN
    /\ min_contrast \in MinContrastValues
    /\ min_dots \in MinDotsValues
    /\ min_neighbors = 0
    /\ Entry

SpecCell == InitCell /\ [][Next]_vars

\* The grid specification with the cells of the second pass visited in any
\* order, on a frame one row lower.
InitAnyOrder ==
    /\ char_w = GridW
    /\ char_h = GridH - 1
    /\ img_w = 2 * GridW
    /\ img_h = 4 * (GridH - 1)
    /\ MainIdle /\ KMeansIdle /\ ChooseIdle
    /\ img \in GridImages(GridW, GridH - 1)
    /\ dither = TRUE
    /\ min_contrast = 12
    /\ min_dots = 2
    /\ min_neighbors \in 1..MaxMinNeighbors
    /\ Entry

SpecAnyOrder == InitAnyOrder /\ [][NextAnyOrder]_vars

\* main with the default thresholds, every frame size from -MaxBelowZero up
\* to GridW x GridH and a picture already of the size of the frame.
MaxBelowZero == 1

InitMain ==
    /\ pc = "main"
    /\ char_w \in (0 - MaxBelowZero)..GridW
    /\ char_h \in (0 - MaxBelowZero)..GridH
    /\ file \in GridImages(Max(1, char_w), Max(1, char_h))
    /\ source = NoPicture
    /\ lua = NoOutput
    /\ img = NoPicture
    /\ img_w = 0
    /\ img_h = 0
    /\ dither = TRUE
    /\ min_contrast = 12
    /\ min_dots = 2
    /\ min_neighbors = 2
    /\ bit_rows = << >> /\ fg_rows = << >> /\ bg_rows = << >>
    /\ bit_line = << >> /\ fg_line = << >> /\ bg_line = << >>
    /\ ret = << >>
    /\ cleaned_bits = << >> /\ cleaned_line = << >>
    /\ chars = << >>
    /\ KMeansIdle /\ ChooseIdle

SpecMain == InitMain /\ [][NextMain]_vars

\* to_braille_grid called on a GridW x GridH frame with a buffer whose width
\* and height are right, one pixel short or one cell too large.
InitCall ==
    /\ pc = "call"
    /\ char_w = GridW
    /\ char_h = GridH
    /\ img \in GridImages(GridW, GridH)
    /\ img_w \in {2 * GridW - 1, 2 * GridW, 2 * GridW + 2}
    /\ img_h \in {4 * GridH - 1, 4 * GridH, 4 * GridH + 4}
    /\ dither = TRUE
    /\ min_contrast = 12
    /\ min_dots = 2
    /\ min_neighbors = 2
    /\ bit_rows = << >> /\ fg_rows = << >> /\ bg_rows = << >>
    /\ bit_line = << >> /\ fg_line = << >> /\ bg_line = << >>
    /\ ret = << >>
    /\ cleaned_bits = << >> /\ cleaned_line = << >>
    /\ chars = << >>
    /\ MainIdle /\ KMeansIdle /\ ChooseIdle

SpecCall == InitCall /\ [][NextCall]_vars

\* The first pass with its cells computed in any order, on a frame of one
\* row.
InitParallel ==
    /\ char_w = GridW
    /\ char_h = 1
    /\ img_w = 2 * GridW
    /\ img_h = 4
    /\ MainIdle /\ KMeansIdle /\ ChooseIdle
    /\ img \in GridImages(GridW, 1)
    /\ dither \in BOOLEAN
    /\ min_contrast = 12
    /\ min_dots = 2
    /\ min_neighbors \in 0..MaxMinNeighbors
    /\ Entry

SpecParallel == InitParallel /\ [][NextParallel]_vars

\* The lists _kmeans_two is run on: the pixels of the blocks of the cell
\* specification (all grey), lists of 8 pixels of up to five colours in
\* every proportion, the lists of at most two pixels, and lists that keep
\* the loop busy.
Green == <<0, 100, 0, 255>>
Magenta == <<255, 0, 255, 255>>
Violet == <<100, 0, 255, 255>>
Red == <<255, 0, 0, 255>>

PixelsOf(block) ==
    Flat([py \in 1..4 |-> [px \in 1..2 |-> CompositeOnBlack(block[py][px])]])

ColourRuns ==
    {[i \in 1..8 |-> CompositeOnBlack(
          IF i <= cut[1] THEN Green
          ELSE IF i <= cut[2] THEN Black
          ELSE IF i <= cut[3] THEN Magenta
          ELSE IF i <= cut[4] THEN Violet
          ELSE Red)] :
     cut \in {c \in (0..8) \X (0..8) \X (0..8) \X (0..8) :
                 c[1] <= c[2] /\ c[2] <= c[3] /\ c[3] <= c[4]}}

ShortLists ==
    LET some == {CompositeOnBlack(q) : q \in {Black, Green, Red, White}}
    IN  {<< >>} \cup {<<q>> : q \in some}
            \cup {<<q, r>> : q \in some, r \in some}

\* Lists of grey pixels on which the centres settle late or not at all
\* within the loop, forwards and backwards.
SlowLists ==
    LET levels == {<<0, 0, 0, 0, 100, 120, 130, 255>>,
                   <<17, 18, 79, 91, 99, 101, 125, 181>>,
                   <<22, 26, 97, 114, 118, 128, 134, 219>>}
    IN  {[i \in 1..8 |-> Pixel(l[i], l[i], l[i])] : l \in levels}
            \cup {[i \in 1..8 |-> Pixel(l[9 - i], l[9 - i], l[9 - i])] : l \in levels}

KMeansInputs ==
    {PixelsOf(b) : b \in CellBlocks} \cup ColourRuns \cup ShortLists
        \cup SlowLists

InitKMeans ==
    /\ kpc = "enter"
    /\ colors \in KMeansInputs
    /\ center_a = Pixel(0, 0, 0) /\ center_b = Pixel(0, 0, 0)
    /\ cluster_a = << >> /\ cluster_b = << >>
    /\ rounds = 0
    /\ char_w = 1
    /\ char_h = 1
    /\ img = NoPicture
    /\ img_w = 2
    /\ img_h = 4
    /\ dither = TRUE
    /\ min_contrast = 12
    /\ min_dots = 2
    /\ min_neighbors = 2
    /\ MainIdle /\ ChooseIdle
    /\ Entry

SpecKMeans == InitKMeans /\ [][NextKMeans]_vars

\* The arguments _choose_pixel is called on: six pixels, seven cluster
\* colours for bg and fg (pixels, and means of two and of three pixels, one
\* of them equal to a pixel), every position of the block, both modes.
ChoosePixels ==
    {CompositeOnBlack(q) : q \in {Black, Grey, White, Green, Magenta, Red}}

ChooseCentres ==
    {Pixel(0, 0, 0), Pixel(255, 255, 255), Pixel(255, 0, 255),
     Pixel(120, 120, 120),
     [r |-> 240, g |-> 240, b |-> 240, n |-> 2],
     [r |-> 255, g |-> 0, b |-> 255, n |-> 2],
     [r |-> 255, g |-> 100, b |-> 0, n |-> 3]}

InitChoose ==
    /\ choose_args \in [color : ChoosePixels, bg : ChooseCentres,
                        fg : ChooseCentres, x : 0..1, y : 0..3,
                        dither : BOOLEAN]
    /\ choose_ret = "none"
    /\ char_w = 1
    /\ char_h = 1
    /\ img = NoPicture
    /\ img_w = 2
    /\ img_h = 4
    /\ dither = TRUE
    /\ min_contrast = 12
    /\ min_dots = 2
    /\ min_neighbors = 2
    /\ MainIdle /\ KMeansIdle
    /\ Entry

SpecChoose == InitChoose /\ [][NextChoose]_vars

\* ================================================================ claims
\* The first-pass tuple (bits, fg, bg, dot_count) of cell (x, y), as line
\* 292 computes it from the image.
FirstPass(x, y) ==
    BlockToBraille(BlockAt(img, x, y), dither, min_contrast, min_dots)

SecondPassOver == pc \in {"chars", "done"}

\* The cells next to (x, y) inside the frame, the cell itself excluded.
Neighbours(x, y) ==
    {c \in Cells(char_w, char_h) :
        /\ c # <<x, y>>
        /\ c[1] - x \in {-1, 0, 1}
        /\ c[2] - y \in {-1, 0, 1}}

InkedNeighbours(x, y) ==
    Cardinality({c \in Neighbours(x, y) : bit_rows[c[2] + 1][c[1] + 1] # 0})

\* ------------------------------------------------------------------- C1
\* C1 as stated: the suppression pass applied to its own output returns that
\* output, suppress(suppress(G)) = suppress(G), for bits and fg (bg is never
\* written).
C1_Idempotent ==
    pc = "done" =>
        /\ SuppressBits(cleaned_bits, char_w, char_h, min_neighbors)
               = cleaned_bits
        /\ SuppressFg(cleaned_bits, fg_rows, bg_rows, char_w, char_h,
                      min_neighbors) = fg_rows

\* C1 as amended: the pass is idempotent when min_neighbors <= 1; for every
\* min_neighbors a second application leaves the cells with zero bits
\* untouched (bits 0, fg unchanged) and every cell it returns is 0 or the
\* cell it was given.
C1_IdempotentUpToOne ==
    pc = "done" =>
        LET again == SuppressBits(cleaned_bits, char_w, char_h, min_neighbors)
            fg2 == SuppressFg(cleaned_bits, fg_rows, bg_rows, char_w, char_h,
                              min_neighbors)
        IN  /\ min_neighbors <= 1 => (again = cleaned_bits /\ fg2 = fg_rows)
            /\ \A y \in 1..char_h, x \in 1..char_w :
                   /\ cleaned_bits[y][x] = 0 =>
                          (again[y][x] = 0 /\ fg2[y][x] = fg_rows[y][x])
                   /\ again[y][x] \in {0, cleaned_bits[y][x]}

\* min_neighbors = 1, the pass has flattened a cell and kept another.
C1_Witness ==
    /\ pc = "done"
    /\ min_neighbors = 1
    /\ cleaned_bits # bit_rows
    /\ \E y \in 1..char_h, x \in 1..char_w : cleaned_bits[y][x] # 0

\* ------------------------------------------------------------------- C8
\* C8: a cell with nonzero first-pass bits and n inked neighbours inside the
\* frame ends with bits 0 (glyph U+2800) and fg = bg when n < min_neighbors,
\* and with its first-pass bits and fg otherwise.
C8_SuppressionRule ==
    SecondPassOver =>
        \A c \in Cells(char_w, char_h) :
            LET x == c[1]
                y == c[2]
            IN  bit_rows[y + 1][x + 1] # 0 =>
                    IF InkedNeighbours(x, y) < min_neighbors
                    THEN /\ cleaned_bits[y + 1][x + 1] = 0
                         /\ fg_rows[y + 1][x + 1] = bg_rows[y + 1][x + 1]
                         /\ pc = "done" => chars[y + 1][x + 1] = BrailleBase
                    ELSE /\ cleaned_bits[y + 1][x + 1] = bit_rows[y + 1][x + 1]
                         /\ fg_rows[y + 1][x + 1] = FirstPass(x, y)[2]

\* Scenario 4: one inked cell, no inked neighbour, min_neighbors = 2, and the
\* cell came out blank with fg = bg.
C8_Witness ==
    /\ pc = "done"
    /\ min_neighbors = 2
    /\ \E c \in Cells(char_w, char_h) :
          /\ bit_rows[c[2] + 1][c[1] + 1] # 0
          /\ FirstPass(c[1], c[2])[2] # FirstPass(c[1], c[2])[3]
          /\ \A d \in Cells(char_w, char_h) \ {c} : bit_rows[d[2] + 1][d[1] + 1] = 0
          /\ chars[c[2] + 1][c[1] + 1] = BrailleBase
          /\ fg_rows[c[2] + 1][c[1] + 1] = bg_rows[c[2] + 1][c[1] + 1]

\* ------------------------------------------------------------------- C9
\* C9: a step of the second pass never changes bg_rows, changes fg_rows at
\* most at the visited cell and only if its first-pass bits are nonzero, and
\* emits for the visited cell either 0 or its first-pass bits; a cell with
\* first-pass bits 0 gets 0.
C9_FrameEffect ==
    [][pc = "second" =>
          LET y == Len(cleaned_bits)
              x == Len(cleaned_line)
              emitted == IF cleaned_line' = << >>
                         THEN cleaned_bits'[y + 1][x + 1]
                         ELSE cleaned_line'[x + 1]
          IN  /\ bg_rows' = bg_rows
              /\ \A yy \in 1..char_h, xx \in 1..char_w :
                     (<<xx, yy>> # <<x + 1, y + 1>> \/ bit_rows[yy][xx] = 0)
                         => fg_rows'[yy][xx] = fg_rows[yy][xx]
              /\ emitted \in {0, bit_rows[y + 1][x + 1]}
              /\ bit_rows[y + 1][x + 1] = 0 => emitted = 0]_vars

\* The pass is over, it met a blank cell and it flattened an inked one.
C9_Witness ==
    /\ pc = "done"
    /\ \E y \in 1..char_h, x \in 1..char_w : bit_rows[y][x] = 0
    /\ \E y \in 1..char_h, x \in 1..char_w :
          bit_rows[y][x] # 0 /\ cleaned_bits[y][x] = 0

\* ------------------------------------------------------------------ C10
\* C10: with the cells of the second pass visited in any order, no step of
\* the pass writes bit_rows, and the frame it ends with is the frame of the
\* row-major pass: cleaned bits and fg decided from the first-pass grid.
C10_OrderIndependent ==
    /\ [][pc = "second" => bit_rows' = bit_rows]_vars
    /\ [](SecondPassOver =>
            /\ cleaned_bits = SuppressBits(bit_rows, char_w, char_h,
                                           min_neighbors)
            /\ fg_rows = SuppressFg(bit_rows,
                             [y \in 1..char_h |-> [x \in 1..char_w |->
                                 FirstPass(x - 1, y - 1)[2]]],
                             bg_rows, char_w, char_h, min_neighbors)
            /\ bg_rows = [y \in 1..char_h |-> [x \in 1..char_w |->
                             FirstPass(x - 1, y - 1)[3]]])

\* The last cell of the frame was visited first, and the pass flattened a
\* cell and kept another.
C10_Witness ==
    /\ pc = "second"
    /\ cleaned_bits # << >>
    /\ cleaned_bits[char_h][char_w] = 0
    /\ cleaned_bits[1][1] = Unvisited
    /\ bit_rows[char_h][char_w] # 0
    /\ \E y \in 1..char_h, x \in 1..char_w :
          /\ bit_rows[y][x] # 0
          /\ ~Flattens(bit_rows, x - 1, y - 1, char_w, char_h, min_neighbors)

\* --------------------------------------------------- the cell specification
\* The block of the only cell and its pixels in row-major order.
TheBlock == BlockAt(img, 0, 0)
ThePixels == Flat(TheBlock)

\* _block_to_braille has returned for the cell.
CellDone == pc # "first"

Positions == (0..1) \X (0..3)

\* The pixels of the block that _choose_pixel puts in the foreground, given
\* the clustered colours.
OnPixels(block, bg, fg, d) ==
    {q \in Positions :
        ChoosePixel(block[q[2] + 1][q[1] + 1], bg, fg, q[1], q[2], d)}

\* (r << 16) | (g << 8) | b of the rounded mean of 8 pixels.
PackedAverage(pixels) ==
    LET total(ch) == pixels[1][ch] + pixels[2][ch] + pixels[3][ch]
                     + pixels[4][ch] + pixels[5][ch] + pixels[6][ch]
                     + pixels[7][ch] + pixels[8][ch]
    IN  RoundHalfEven(total("r"), 8) * 65536 + RoundHalfEven(total("g"), 8) * 256
            + RoundHalfEven(total("b"), 8)

\* sqrt(dist2(bg, fg)) < mc.
BelowContrast(bg, fg, mc) ==
    Dist2(bg, fg) < mc * mc * (bg.n * fg.n) * (bg.n * fg.n)

IsScenario2Block == img[<<0, 0>>] = TopRowBlock(Black, White)

\* ------------------------------------------------------------------- C2
\* C2 as stated: for a block whose pixels take exactly two luminances,
\* _choose_pixel gives the same answer with and without dithering at every
\* position of the block, for the colours _kmeans_two returns.
C2_DitherAgreesWithNearest ==
    (pc = "second" /\ Cardinality({Luminance(ThePixels[i]) : i \in 1..8}) = 2) =>
        LET km == KMeansTwo(ThePixels)
        IN  OnPixels(TheBlock, km[1], km[2], TRUE)
                = OnPixels(TheBlock, km[1], km[2], FALSE)

\* ------------------------------------------------------------------- C3
\* C3 as stated: scenario 2 (top row black, three rows white, nearest
\* colour, min_contrast 12, min_dots 1) gives bits 0b00001001, fg 0x000000,
\* bg 0xFFFFFF.
C3_Scenario2AsStated ==
    (CellDone /\ IsScenario2Block /\ ~dither /\ min_contrast = 12 /\ min_dots = 1)
        => (ret[1] = 9 /\ ret[2] = 0 /\ ret[3] = 16777215)

\* C3 as amended: scenario 2 gives bits 0b11110110 (the six white pixels,
\* glyph chr(0x28F6)), fg 0xFFFFFF, bg 0x000000 and 6 dots.
C3_Scenario2 ==
    (CellDone /\ IsScenario2Block /\ ~dither /\ min_contrast = 12 /\ min_dots = 1)
        => /\ ret = <<246, 16777215, 0, 6>>
           /\ pc = "done" => chars = << <<10486>> >>

C3_Witness ==
    /\ pc = "done"
    /\ IsScenario2Block /\ ~dither /\ min_contrast = 12 /\ min_dots = 1
    /\ chars[1][1] = BrailleBase + 246

\* ------------------------------------------------------------------- C4
\* C4 as stated: scenario 2 with min_dots 3 is flattened to bits 0 and
\* fg = bg = the packed average of the 8 pixels.
C4_Scenario3AsStated ==
    (CellDone /\ IsScenario2Block /\ ~dither /\ min_contrast = 12 /\ min_dots = 3)
        => ret = <<0, PackedAverage(ThePixels), PackedAverage(ThePixels), 0>>

\* C4 as amended: the scenario-2 block has 6 dots, so with min_dots 3 it is
\* kept (bits 0b11110110, fg 0xFFFFFF, bg 0x000000); it is flattened to bits
\* 0 and fg = bg = 0xBFBFBF, the packed average, with min_dots 7.
C4_Scenario3 ==
    (CellDone /\ IsScenario2Block /\ ~dither /\ min_contrast = 12) =>
        /\ min_dots = 3 => ret = <<246, 16777215, 0, 6>>
        /\ min_dots = 7 => (ret = <<0, 12566463, 12566463, 0>>
                            /\ PackedAverage(ThePixels) = 12566463)

C4_Witness ==
    /\ pc = "done"
    /\ IsScenario2Block /\ ~dither /\ min_contrast = 12 /\ min_dots = 3
    /\ ret[4] = 6

\* ------------------------------------------------------------------- C5
\* C5: for a block whose 8 pixels have one colour c, _kmeans_two returns
\* (c, c) and _block_to_braille returns bits 0 with fg = bg = packed c, for
\* every threshold and dither flag; an all-white block gives 0xFFFFFF.
C5_UniformBlock ==
    (CellDone /\ \A i \in 1..8 : ThePixels[i] = ThePixels[1]) =>
        LET c == ThePixels[1]
            packed == c.r * 65536 + c.g * 256 + c.b
            km == KMeansTwo(ThePixels)
        IN  /\ ColorEq(km[1], c) /\ ColorEq(km[2], c)
            /\ ret = <<0, packed, packed, 0>>
            /\ img[<<0, 0>>] = UniformBlock(White) => ret[2] = 16777215

\* An all-white cell went through the classification loop (min_contrast 0).
C5_Witness ==
    /\ pc = "done"
    /\ img[<<0, 0>>] = UniformBlock(White)
    /\ min_contrast = 0
    /\ dither
    /\ ret = <<0, 16777215, 16777215, 0>>

\* ------------------------------------------------------------------- C6
\* C6: when the clustered colours are closer than min_contrast the result is
\* bits 0, dot count 0 and fg = bg = the packed average of the block,
\* whatever the pixels and the dither flag.
C6_LowContrastIsFlat ==
    pc = "second" =>
        LET km == KMeansTwo(ThePixels)
        IN  BelowContrast(km[1], km[2], min_contrast) =>
                ret = <<0, PackedAverage(ThePixels), PackedAverage(ThePixels), 0>>

\* A block of two colours 8.66 apart, min_contrast 12.
C6_Witness ==
    /\ pc = "second"
    /\ min_contrast = 12
    /\ \E i \in 1..8 : ThePixels[i] # ThePixels[1]
    /\ ret[1] = 0 /\ ret[2] = ret[3]
    /\ LET km == KMeansTwo(ThePixels)
       IN  BelowContrast(km[1], km[2], min_contrast)

\* ------------------------------------------------------------------- C7
\* C7: with contrast >= min_contrast and n pixels classified foreground:
\* 1 <= n <= min_dots - 1 gives the blank result (bits 0, dot count 0,
\* fg = bg = packed average); n >= min_dots gives the bits of exactly the
\* classified pixels (glyph 0x2800 + bits), the packed clustered fg and bg,
\* and dot count n.
C7_DotCountRule ==
    CellDone =>
        LET km == KMeansTwo(ThePixels)
            on == OnPixels(TheBlock, km[1], km[2], dither)
            n == Cardinality(on)
            avg == PackedAverage(ThePixels)
        IN  ~BelowContrast(km[1], km[2], min_contrast) =>
                /\ (1 <= n /\ n <= min_dots - 1) => ret = <<0, avg, avg, 0>>
                /\ n >= min_dots =>
                       /\ ret[1] \in 0..255
                       /\ \A q \in Positions :
                              (ret[1] \div Pow2(BRAILLE_BIT_INDEX[q[2] + 1][q[1] + 1]))
                                  % 2 = 1  <=>  q \in on
                       /\ ret[2] = ColorToHex(km[2])
                       /\ ret[3] = ColorToHex(km[1])
                       /\ ret[4] = n
                       /\ (pc = "done" /\ min_neighbors = 0) =>
                              chars[1][1] = BrailleBase + ret[1]

\* A cell with exactly min_dots = 3 foreground pixels was kept.
C7_Witness ==
    /\ pc = "done"
    /\ min_dots = 3
    /\ ret[4] = 3
    /\ chars[1][1] # BrailleBase
    /\ LET km == KMeansTwo(ThePixels)
       IN  /\ ~BelowContrast(km[1], km[2], min_contrast)
           /\ Cardinality(OnPixels(TheBlock, km[1], km[2], dither)) = 3

\* ------------------------------------------------------------------ C11
\* rows has h rows of w elements each.
IsGrid(rows, w, h) ==
    /\ Len(rows) = h
    /\ \A i \in 1..Len(rows) : Len(rows[i]) = w

\* C11: when to_braille_grid has returned (char_w >= 1, char_h >= 1), chars,
\* fg_rows and bg_rows each have char_h rows of char_w elements, whether or
\* not the second pass flattened cells, and the table frame_to_lua prints
\* has w = char_w and h = char_h.
C11_FrameRowLengths ==
    pc \in {"done", "written"} =>
        /\ char_w >= 1 /\ char_h >= 1
        /\ IsGrid(chars, char_w, char_h)
        /\ IsGrid(fg_rows, char_w, char_h)
        /\ IsGrid(bg_rows, char_w, char_h)
        /\ pc = "written" =>
               /\ lua.w = char_w /\ lua.h = char_h
               /\ IsGrid(lua.chars, lua.w, lua.h)
               /\ IsGrid(lua.fg, lua.w, lua.h)
               /\ IsGrid(lua.bg, lua.w, lua.h)

\* A frame wider than high was written, with a cell the second pass
\* flattened and a cell it kept.
C11_Witness ==
    /\ pc = "written"
    /\ char_w > char_h /\ char_h > 1
    /\ \E y \in 1..char_h, x \in 1..char_w :
          bit_rows[y][x] # 0 /\ cleaned_bits[y][x] = 0
    /\ \E y \in 1..char_h, x \in 1..char_w : cleaned_bits[y][x] # 0

\* ------------------------------------------------------------------ C13
\* C13: with char_width <= 0 or char_height <= 0 main goes from its first
\* step straight to the fatal exit and stays there: the picture is never
\* loaded, no cell is processed, nothing is written to the output file.
C13_InvalidConfigIsFatal ==
    /\ [][(pc = "main" /\ (char_w <= 0 \/ char_h <= 0)) => pc' = "fatal"]_vars
    /\ []((char_w <= 0 \/ char_h <= 0) =>
            /\ pc \in {"main", "fatal"}
            /\ source = NoPicture
            /\ img = NoPicture
            /\ ret = << >>
            /\ bit_rows = << >> /\ bit_line = << >>
            /\ chars = << >>
            /\ lua = NoOutput)

\* main has exited on a frame of positive width and height 0.
C13_Witness ==
    /\ pc = "fatal"
    /\ char_w > 0
    /\ char_h = 0
    /\ lua = NoOutput

\* ------------------------------------------------------------------ C12
\* C12 as stated: when the classification loop of a cell has run (the
\* contrast test passed) and put all 8 pixels in one group, all on or all
\* off, the fg and bg returned for the cell are equal, both the packed mean
\* of the non-empty group, which is the whole block.
C12_EmptyGroupCollapse ==
    CellDone =>
        LET km == KMeansTwo(ThePixels)
            on == OnPixels(TheBlock, km[1], km[2], dither)
        IN  (~BelowContrast(km[1], km[2], min_contrast)
                 /\ (on = {} \/ on = Positions))
                => (ret[2] = ret[3] /\ ret[2] = PackedAverage(ThePixels))

\* ------------------------------------------------------------------ C14
\* The grid of component k of the first-pass tuples, cell by cell.
FirstPassGrid(k) ==
    [y \in 1..char_h |-> [x \in 1..char_w |-> FirstPass(x - 1, y - 1)[k]]]

\* C14: with the first-pass cells computed in any order, a cell's stored
\* result is the one of its own block (two cells with equal blocks hold
\* equal results wherever they lie), the second pass starts only when every
\* cell is stored, and the frame is the one of the row-major run: first-pass
\* grids by position, then the suppression of that grid.
C14_ScheduleIndependent ==
    /\ pc = "first" /\ bit_rows # << >> =>
           \A c \in Cells(char_w, char_h), d \in Cells(char_w, char_h) :
               (/\ bit_rows[c[2] + 1][c[1] + 1] # Unvisited
                /\ bit_rows[d[2] + 1][d[1] + 1] # Unvisited
                /\ BlockAt(img, c[1], c[2]) = BlockAt(img, d[1], d[2]))
                   => /\ bit_rows[c[2] + 1][c[1] + 1] = bit_rows[d[2] + 1][d[1] + 1]
                      /\ fg_rows[c[2] + 1][c[1] + 1] = fg_rows[d[2] + 1][d[1] + 1]
                      /\ bg_rows[c[2] + 1][c[1] + 1] = bg_rows[d[2] + 1][d[1] + 1]
    /\ pc \in {"second", "chars", "done"} =>
           /\ bit_rows = FirstPassGrid(1)
           /\ bg_rows = FirstPassGrid(3)
           /\ (pc = "second" /\ cleaned_bits = << >> /\ cleaned_line = << >>)
                  => fg_rows = FirstPassGrid(2)
    /\ pc = "done" =>
           /\ cleaned_bits = SuppressBits(FirstPassGrid(1), char_w, char_h,
                                          min_neighbors)
           /\ fg_rows = SuppressFg(FirstPassGrid(1), FirstPassGrid(2),
                                   FirstPassGrid(3), char_w, char_h,
                                   min_neighbors)
           /\ chars = [y \in 1..char_h |-> [x \in 1..char_w |->
                          BrailleBase + cleaned_bits[y][x]]]

\* The last cell of the frame was computed first, the first cell is still
\* missing, and the two cells hold different results.
C14_Witness ==
    /\ pc = "first"
    /\ bit_rows # << >>
    /\ bit_rows[char_h][char_w] # Unvisited
    /\ bit_rows[1][1] = Unvisited
    /\ FirstPass(0, 0) # FirstPass(char_w - 1, char_h - 1)
    /\ FirstPass(char_w - 1, char_h - 1)[1] # 0

\* ------------------------------------------------------- _kmeans_two claims
\* luminance(a) <= luminance(b) for two centres.
LumLeq(a, b) == Luminance(a) * b.n <= Luminance(b) * a.n

\* Every pixel of the list is grey (r = g = b).
AllGrey(pixels) ==
    \A i \in 1..Len(pixels) : pixels[i].r = pixels[i].g /\ pixels[i].g = pixels[i].b

\* The centres are the seeds and no loop body has run yet.
JustSeeded == kpc = "same" \/ (kpc = "partition" /\ rounds = 0)

\* ------------------------------------------------------------------ C15
\* C15 as stated: for every non-empty list the centres _kmeans_two returns
\* satisfy luminance(low) <= luminance(high).
C15_LowNotBrighter ==
    (KMeansReturned /\ colors # << >>) => LumLeq(center_a, center_b)

\* C15 as amended: center_a is seeded with a pixel of least luminance and
\* center_b with a pixel of greatest luminance, and the returned pair
\* descends from these seeds; the returned centres satisfy
\* luminance(low) <= luminance(high) when no loop body has run and for every
\* list of grey pixels.
C15_SeedsOrdered ==
    /\ JustSeeded =>
           /\ \E i \in 1..Len(colors) : center_a = colors[i]
           /\ \E i \in 1..Len(colors) : center_b = colors[i]
           /\ \A i \in 1..Len(colors) :
                  /\ Luminance(center_a) <= Luminance(colors[i])
                  /\ Luminance(colors[i]) <= Luminance(center_b)
    /\ (KMeansReturned /\ colors # << >> /\ (rounds = 0 \/ AllGrey(colors)))
           => LumLeq(center_a, center_b)

\* A list of grey pixels of three levels whose first pixel is not the
\* darkest, returned after two loop bodies with the low centre darker.
C15_Witness ==
    /\ kpc = "break"
    /\ rounds = 2
    /\ AllGrey(colors)
    /\ Luminance(colors[1]) > Luminance(colors[Len(colors)])
    /\ ~LumLeq(center_b, center_a)

\* ------------------------------------------------------------------ C16
\* The first pixel of least luminance and the last pixel of greatest
\* luminance of a non-empty list (the ends of the stable sort).
DarkestFirst(pixels) ==
    pixels[CHOOSE i \in 1..Len(pixels) :
               \A j \in 1..Len(pixels) :
                   \/ Luminance(pixels[i]) < Luminance(pixels[j])
                   \/ (Luminance(pixels[i]) = Luminance(pixels[j]) /\ i <= j)]

BrightestLast(pixels) ==
    pixels[CHOOSE i \in 1..Len(pixels) :
               \A j \in 1..Len(pixels) :
                   \/ Luminance(pixels[i]) > Luminance(pixels[j])
                   \/ (Luminance(pixels[i]) = Luminance(pixels[j]) /\ i >= j)]

\* The pair is left unchanged by one partition of the list and the means of
\* the two parts.
FixedPoint(pixels, a, b) ==
    LET part_a == SelectSeq(pixels, LAMBDA c :
                      Dist2(c, a) * (b.n * b.n) <= Dist2(c, b) * (a.n * a.n))
        part_b == SelectSeq(pixels, LAMBDA c :
                      Dist2(c, a) * (b.n * b.n) > Dist2(c, b) * (a.n * a.n))
    IN  /\ ColorEq(AvgColor(IF part_a = << >> THEN <<a>> ELSE part_a), a)
        /\ ColorEq(AvgColor(IF part_b = << >> THEN <<b>> ELSE part_b), b)

\* C16: _kmeans_two cannot run for ever: until it has returned it is at one
\* of its three steps, every step moves on (entry, then partition and
\* recomputation in turn) and the number of loop bodies run, which each
\* recomputation increases by one, stays below 4 while it runs and never
\* exceeds 4.  It returns with no body run exactly when the lowest- and
\* highest-luminance pixels are identical; a body in which both recomputed
\* centres equal the previous ones is the last one, and the centres
\* returned then are a fixed point of the partition/mean step; otherwise the
\* loop ends after the fourth body.
C16_BoundedIteration ==
    /\ [][/\ kpc = "enter" => kpc' # "enter"
          /\ kpc = "partition" => (kpc' = "recompute" /\ rounds' = rounds)
          /\ kpc = "recompute" =>
                 (rounds' = rounds + 1 /\ kpc' # "recompute")]_vars
    /\ [](/\ rounds <= 4
          /\ ~KMeansReturned =>
                 (rounds < 4 /\ kpc \in {"enter", "partition", "recompute"})
          /\ (kpc \notin {"enter", "empty"} /\ colors # << >>) =>
                 (kpc = "same" <=> DarkestFirst(colors) = BrightestLast(colors))
          /\ kpc = "same" => (rounds = 0 /\ cluster_a = << >> /\ cluster_b = << >>)
          /\ kpc = "break" => (rounds >= 1 /\ FixedPoint(colors, center_a, center_b))
          /\ kpc = "exhausted" => rounds = 4
          /\ KMeansReturned =>
                 /\ ColorEq(center_a, KMeansTwo(colors)[1])
                 /\ ColorEq(center_b, KMeansTwo(colors)[2]))
    /\ [][kpc = "recompute" =>
            IF ColorEq(AvgColor(cluster_a'), center_a)
                   /\ ColorEq(AvgColor(cluster_b'), center_b)
            THEN kpc' = "break" /\ center_a' = center_a /\ center_b' = center_b
            ELSE /\ kpc' # "break"
                 /\ ~FixedPoint(colors, center_a, center_b)]_vars

\* The fourth body still moved both centres, and the loop ended there.
C16_Witness ==
    /\ kpc = "exhausted"
    /\ rounds = 4
    /\ ~ColorEq(center_a, DarkestFirst(colors))
    /\ ~ColorEq(center_b, BrightestLast(colors))

\* ------------------------------------------------------------------ C17
\* The number of elements of the list equal to c.
CountOf(pixels, c) == Cardinality({i \in 1..Len(pixels) : pixels[i] = c})

\* center is the mean of the list: of its pixels, or the previous centre it
\* was re-seeded with.
IsMeanOf(center, cluster) ==
    IF Len(cluster) = 1 THEN ColorEq(center, cluster[1])
    ELSE /\ center.r * Len(cluster) = SumChannel(cluster, "r") * center.n
         /\ center.g * Len(cluster) = SumChannel(cluster, "g") * center.n
         /\ center.b * Len(cluster) = SumChannel(cluster, "b") * center.n

\* C17: after the partition of a loop body every pixel of cluster A is at
\* most as far from center_a as from center_b (ties are in A), every pixel
\* of cluster B is strictly nearer to center_b, and each pixel of the list
\* is in exactly one of the two; the step that follows averages non-empty
\* lists only: a non-empty cluster as it is, an empty one replaced by its
\* previous centre, and a new centre is the mean of that list.
C17_PartitionAndMeans ==
    /\ [](kpc = "recompute" =>
            /\ \A i \in 1..Len(cluster_a) :
                   Dist2(cluster_a[i], center_a) * (center_b.n * center_b.n)
                       <= Dist2(cluster_a[i], center_b) * (center_a.n * center_a.n)
            /\ \A i \in 1..Len(cluster_b) :
                   Dist2(cluster_b[i], center_a) * (center_b.n * center_b.n)
                       > Dist2(cluster_b[i], center_b) * (center_a.n * center_a.n)
            /\ Len(cluster_a) + Len(cluster_b) = Len(colors)
            /\ \A i \in 1..Len(colors) :
                   /\ CountOf(colors, colors[i])
                          = CountOf(cluster_a, colors[i])
                                + CountOf(cluster_b, colors[i])
                   /\ CountOf(cluster_a, colors[i]) = 0
                          \/ CountOf(cluster_b, colors[i]) = 0)
    /\ [][kpc = "recompute" =>
            /\ cluster_a' # << >> /\ cluster_b' # << >>
            /\ cluster_a' = IF cluster_a = << >> THEN <<center_a>> ELSE cluster_a
            /\ cluster_b' = IF cluster_b = << >> THEN <<center_b>> ELSE cluster_b
            /\ kpc' # "break" =>
                   /\ IsMeanOf(center_a', cluster_a')
                   /\ IsMeanOf(center_b', cluster_b')]_vars

\* A pixel at equal distance from the two centres is in cluster A, and
\* cluster B holds pixels too.
C17_Witness ==
    /\ kpc = "recompute"
    /\ cluster_b # << >>
    /\ \E i \in 1..Len(cluster_a) :
          /\ cluster_a[i] # center_a
          /\ Dist2(cluster_a[i], center_a) * (center_b.n * center_b.n)
                 = Dist2(cluster_a[i], center_b) * (center_a.n * center_a.n)

\* ------------------------------------------------------------------ C18
\* The two colours are the same colour, whatever the lists they are means of.
SameColour(a, b) ==
    a.r * b.n = b.r * a.n /\ a.g * b.n = b.g * a.n /\ a.b * b.n = b.b * a.n

\* dist2(pixel, a) - dist2(pixel, b) for a pixel and two cluster colours,
\* multiplied by (a.n * b.n)^2.
DistanceGap(pixel, a, b) ==
    LET sq(v) == v * v
        da == sq(pixel.r * a.n - a.r) + sq(pixel.g * a.n - a.g)
                  + sq(pixel.b * a.n - a.b)
        db == sq(pixel.r * b.n - b.r) + sq(pixel.g * b.n - b.g)
                  + sq(pixel.b * b.n - b.b)
    IN  da * sq(b.n) - db * sq(a.n)

\* C18: _choose_pixel returns False for every pixel, position and dither
\* flag when bg equals fg; with dither off and bg # fg it returns True iff
\* dist2(pixel, fg) <= dist2(pixel, bg), so a pixel at equal distance from
\* both is foreground.
C18_ChoosePixelRule ==
    choose_ret # "none" =>
        LET a == choose_args
        IN  /\ SameColour(a.bg, a.fg) => choose_ret = "False"
            /\ (~a.dither /\ ~SameColour(a.bg, a.fg)) =>
                   /\ choose_ret = "True"
                          <=> DistanceGap(a.color, a.fg, a.bg) <= 0
                   /\ DistanceGap(a.color, a.fg, a.bg) = 0
                          => choose_ret = "True"

\* A pixel at equal distance from two different colours was classified
\* without dithering, as foreground.
C18_Witness ==
    /\ choose_ret = "True"
    /\ ~choose_args.dither
    /\ ~SameColour(choose_args.bg, choose_args.fg)
    /\ choose_args.color # choose_args.fg
    /\ DistanceGap(choose_args.color, choose_args.fg, choose_args.bg) = 0

\* ------------------------------------------------------------------ C19
\* No pixel has been read and no part of a frame exists.
NothingProcessed ==
    /\ ret = << >>
    /\ bit_rows = << >> /\ fg_rows = << >> /\ bg_rows = << >>
    /\ bit_line = << >> /\ fg_line = << >> /\ bg_line = << >>
    /\ cleaned_bits = << >> /\ cleaned_line = << >>
    /\ chars = << >>

\* C19: called with img.width # 2 * char_w or img.height # 4 * char_h,
\* to_braille_grid fails at its first step, with no pixel read and no frame,
\* and stays failed; a cell is only ever processed when both sizes match.
C19_DimensionPrecondition ==
    /\ [][(pc = "call" /\ (img_w # 2 * char_w \/ img_h # 4 * char_h))
              => (pc' = "assert" /\ NothingProcessed')]_vars
    /\ []((img_w # 2 * char_w \/ img_h # 4 * char_h) =>
              (pc \in {"call", "assert"} /\ NothingProcessed))
    /\ [](pc \in {"first", "second", "chars", "done"} =>
              (img_w = 2 * char_w /\ img_h = 4 * char_h))

\* The call has failed on a buffer of the right width that is one cell too
\* high.
C19_Witness ==
    /\ pc = "assert"
    /\ img_w = 2 * char_w
    /\ img_h = 4 * char_h + 4
    /\ NothingProcessed

\* ------------------------------------------------------------------ C20
\* The bit pattern the classification loop of the cell builds, before the
\* min_dots test.
ClassifiedBits(bg, fg) == ClassifyFrom(TheBlock, bg, fg, dither, 0)

\* C20 as stated: with dithering, every cell that passes the contrast test
\* has bit 0 set in the classified pattern, which is therefore never 0.
C20_DitherSetsBitZero ==
    (CellDone /\ dither) =>
        LET km == KMeansTwo(ThePixels)
        IN  ~BelowContrast(km[1], km[2], min_contrast) =>
                /\ ClassifiedBits(km[1], km[2]) % 2 = 1
                /\ ClassifiedBits(km[1], km[2]) # 0

\* C20 as amended: with dithering and bg # fg the pixel at block position
\* (0,0) is classified foreground whatever its colour; hence every cell with
\* bg # fg that passes the contrast test has bit 0 set in the classified
\* pattern, which is never 0, and the cell is returned with bit 0 set unless
\* the min_dots test flattens it.  A cell with bg = fg passes the contrast
\* test only when min_contrast = 0, and its pattern is 0.
C20_DitherSetsBitZeroUnlessFlat ==
    (CellDone /\ dither) =>
        LET km == KMeansTwo(ThePixels)
            bits == ClassifiedBits(km[1], km[2])
        IN  /\ ~ColorEq(km[1], km[2]) =>
                   /\ \A c \in ChoosePixels :
                          ChoosePixel(c, km[1], km[2], 0, 0, TRUE)
                   /\ <<0, 0>> \in OnPixels(TheBlock, km[1], km[2], TRUE)
                   /\ ~BelowContrast(km[1], km[2], min_contrast) =>
                          /\ bits % 2 = 1
                          /\ bits # 0
                          /\ ret[1] = bits \/ (ret[1] = 0 /\ PopCount(bits) < min_dots)
            /\ (ColorEq(km[1], km[2])
                    /\ ~BelowContrast(km[1], km[2], min_contrast))
                   => (min_contrast = 0 /\ bits = 0 /\ ret[1] = 0)

\* A dithered cell whose pixel at (0,0) has the background colour, with only
\* bit 0 and one more bit set.
C20_Witness ==
    /\ pc = "done"
    /\ dither
    /\ min_dots <= 1
    /\ LET km == KMeansTwo(ThePixels)
       IN  /\ ~ColorEq(km[1], km[2])
           /\ ~BelowContrast(km[1], km[2], min_contrast)
           /\ ColorEq(ThePixels[1], km[1])
    /\ ret[1] % 2 = 1
    /\ ret[4] = 2

\* ------------------------------------------------------------------ C21
\* The list is not empty and its lowest- and highest-luminance pixels are
\* different colours.
EndsDiffer(pixels) ==
    /\ pixels # << >>
    /\ ~ColorEq(DarkestFirst(pixels), BrightestLast(pixels))

\* C21: for a block whose lowest- and highest-luminance pixels differ,
\* _kmeans_two enters the loop; after every partition both clusters are
\* non-empty, so re-seeding leaves them as they are, and the two means
\* computed from them are distinct; the centres are distinct throughout and
\* the pair returned, which is the one KMeansTwo computes, has bg # fg.
C21_ClustersNeverEmpty ==
    /\ [](EndsDiffer(colors) =>
              /\ kpc \notin {"empty", "same"}
              /\ kpc # "enter" => ~ColorEq(center_a, center_b)
              /\ kpc = "recompute" =>
                     /\ cluster_a # << >>
                     /\ cluster_b # << >>
                     /\ Reseed(cluster_a, center_a) = cluster_a
                     /\ Reseed(cluster_b, center_b) = cluster_b
                     /\ ~ColorEq(AvgColor(cluster_a), AvgColor(cluster_b))
              /\ KMeansReturned =>
                     /\ ColorEq(center_a, KMeansTwo(colors)[1])
                     /\ ColorEq(center_b, KMeansTwo(colors)[2])
                     /\ ~ColorEq(KMeansTwo(colors)[1], KMeansTwo(colors)[2]))
    /\ [][(EndsDiffer(colors) /\ kpc = "recompute") =>
              (cluster_a' = cluster_a /\ cluster_b' = cluster_b)]_vars
    /\ [](kpc \in {"partition", "recompute", "break", "exhausted"} =>
              EndsDiffer(colors))

\* The third partition of a block of several colours has left a single
\* pixel in cluster A.
C21_Witness ==
    /\ kpc = "recompute"
    /\ rounds = 2
    /\ EndsDiffer(colors)
    /\ Len(cluster_a) = 1
    /\ Len(cluster_b) = 7

\* ------------------------------------------------------------------ C22
\* The positions of the block whose pixel is strictly nearer to the first
\* colour than to the second.
StrictlyNearer(block, to, from) ==
    {q \in Positions :
        LET c == block[q[2] + 1][q[1] + 1]
        IN  Dist2(c, to) * (from.n * from.n) < Dist2(c, from) * (to.n * to.n)}

\* C22: without dithering, for a block for which _kmeans_two returns
\* bg # fg, some pixel is strictly nearer to fg and some pixel strictly
\* nearer to bg, so _choose_pixel puts at least one pixel and at most seven
\* in the foreground: the pattern the classification loop builds is neither
\* 0 nor 0xFF.  A cell that passes the contrast test is returned with that
\* pattern, unless the min_dots test blanks it.
C22_NearestSplitsBlock ==
    (CellDone /\ ~dither) =>
        LET km == KMeansTwo(ThePixels)
            on == OnPixels(TheBlock, km[1], km[2], FALSE)
            bits == ClassifiedBits(km[1], km[2])
        IN  ~ColorEq(km[1], km[2]) =>
                /\ StrictlyNearer(TheBlock, km[2], km[1]) # {}
                /\ StrictlyNearer(TheBlock, km[1], km[2]) # {}
                /\ StrictlyNearer(TheBlock, km[2], km[1]) \subseteq on
                /\ on \cap StrictlyNearer(TheBlock, km[1], km[2]) = {}
                /\ on # {} /\ on # Positions
                /\ bits # 0 /\ bits # 255
                /\ PopCount(bits) = Cardinality(on)
                /\ ~BelowContrast(km[1], km[2], min_contrast) =>
                       /\ ret[1] = bits \/ (ret[1] = 0 /\ PopCount(bits) < min_dots)
                       /\ PopCount(bits) >= min_dots =>
                              (ret[1] \notin {0, 255} /\ ret[4] \in 1..7)

\* A cell of three colours classified without dithering, with a single row
\* in the foreground.
C22_Witness ==
    /\ pc = "done"
    /\ ~dither
    /\ Cardinality({ThePixels[i] : i \in 1..8}) = 3
    /\ ~BelowContrast(KMeansTwo(ThePixels)[1], KMeansTwo(ThePixels)[2],
                      min_contrast)
    /\ ret[4] = 2
    /\ ret[1] = ClassifiedBits(KMeansTwo(ThePixels)[1], KMeansTwo(ThePixels)[2])

====
